---- MODULE Spec2Model ----
(***************************************************************************)
(* ICMPv6 / NDP packet handling of the IPv6 endpoint                       *)
(* (pkg/tcpip/network/ipv6/icmp.go).                                       *)
(*                                                                         *)
(* One inbound packet is handed to handleICMP at a time (action            *)
(* HandleICMP, the whole handler); the handler's observable effects are    *)
(* the statistics counters it increments and the calls it makes on its     *)
(* collaborators (stack, NUD, transport dispatcher, route), recorded in    *)
(* order in `calls`.  A link address resolution request runs               *)
(* LinkAddressRequest in the same way (action RequestLinkAddress), and a   *)
(* static resolution runs ResolveStaticAddress (action ResolveStatic).     *)
(*                                                                         *)
(* ConcurrentSpec is a second specification: several invocations of        *)
(* handleICMP run at the same time and share the counters, each counter    *)
(* increment being one step (actions Begin and IncrementStep).             *)
(***************************************************************************)
EXTENDS Integers, Sequences, FiniteSets, TLC

\* ------------------------------------------------------------------------
\* Bounds of the model
\* ------------------------------------------------------------------------

\* Number of packets handled and requests made in one behaviour (caps the
\* counters).
MaxPackets == 1

\* Largest number of 8-byte units in the options area of an NDP message.
MaxOptUnits == 2

\* ------------------------------------------------------------------------
\* Wire constants (package header)
\* ------------------------------------------------------------------------

ICMPv6HeaderSize == 4
ICMPv6MinimumSize == 8
ICMPv6PacketTooBigMinimumSize == 8
ICMPv6DstUnreachableMinimumSize == 8
ICMPv6EchoMinimumSize == 8
ICMPv6NeighborSolicitMinimumSize == 24
ICMPv6NeighborAdvertMinimumSize == 24
ICMPv6NeighborAdvertSize == 32
NDPRSMinimumSize == 4
NDPRAMinimumSize == 12
NDPHopLimit == 255
NDPOptionUnit == 8

ICMPv6DstUnreachable == 1
ICMPv6PacketTooBig == 2
ICMPv6TimeExceeded == 3
ICMPv6ParamProblem == 4
ICMPv6EchoRequest == 128
ICMPv6EchoReply == 129
ICMPv6RouterSolicit == 133
ICMPv6RouterAdvert == 134
ICMPv6NeighborSolicit == 135
ICMPv6NeighborAdvert == 136
ICMPv6RedirectMsg == 137
ICMPv6Unassigned == 200

ICMPv6PortUnreachable == 4

NDPSourceLinkLayerAddressOptionType == 1
NDPTargetLinkLayerAddressOptionType == 2

\* Protocol numbers.
ProtocolNumber == 34525
ICMPv6ProtocolNumber == 58
DefaultTOS == 0

\* ------------------------------------------------------------------------
\* Addresses.  An IPv6 address is kept as <<byte 0, byte 1, low bits>>:
\* the two leading bytes decide its class, the rest tells hosts apart.
\* ------------------------------------------------------------------------

IPv6Any == <<0, 0, 0>>
IPv6AllNodesMulticastAddress == <<255, 2, 1>>
SolicitedNodeOfOwn == <<255, 2, 2>>
OwnAddr == <<254, 128, 2>>
PeerLinkLocal == <<254, 128, 1>>
PeerGlobal == <<32, 1, 1>>

IsV6MulticastAddress(addr) == addr[1] = 255

IsV6LinkLocalAddress(addr) == addr[1] = 254 /\ (addr[2] \div 64) % 4 = 2

\* Link (Ethernet) addresses are short byte strings; <<>> is "none".
NoLinkAddr == <<>>
LocalLinkAddr == <<2>>
FrameLinkAddr == <<7>>
OptLinkAddr == <<9>>

NICID == 1

\* ------------------------------------------------------------------------
\* NDP options (header.NDPOptions).  The options area is a sequence of
\* 8-byte units.  A unit read as the start of an option gives the option's
\* type, its Length field (in units) and the link address its body starts
\* with; an option of Length n covers n units.
\* ------------------------------------------------------------------------

SLLUnit == [typ |-> NDPSourceLinkLayerAddressOptionType, len |-> 1, addr |-> OptLinkAddr]
TLLUnit == [typ |-> NDPTargetLinkLayerAddressOptionType, len |-> 1, addr |-> OptLinkAddr]
ZeroLenUnit == [typ |-> NDPTargetLinkLayerAddressOptionType, len |-> 0, addr |-> OptLinkAddr]
LongSLLUnit == [typ |-> NDPSourceLinkLayerAddressOptionType, len |-> 2, addr |-> OptLinkAddr]

OptUnits == {SLLUnit, TLLUnit, ZeroLenUnit, LongSLLUnit}

OptAreas == UNION {[1..n -> OptUnits] : n \in 0..MaxOptUnits}

\* NDPOptionIterator.Next with the cursor at unit i: the next option, done at
\* the clean end, err on a zero Length field or an option that overruns the
\* area.
NDPOptionsNext(units, i) ==
  IF i > Len(units)
    THEN [err |-> FALSE, done |-> TRUE, typ |-> 0, addr |-> NoLinkAddr, next |-> i]
  ELSE IF units[i].len = 0 \/ i + units[i].len - 1 > Len(units)
    THEN [err |-> TRUE, done |-> TRUE, typ |-> 0, addr |-> NoLinkAddr, next |-> i]
  ELSE [err |-> FALSE, done |-> FALSE, typ |-> units[i].typ, addr |-> units[i].addr,
        next |-> i + units[i].len]

RECURSIVE NDPOptionsWellFormedFrom(_, _)
NDPOptionsWellFormedFrom(units, i) ==
  LET n == NDPOptionsNext(units, i) IN
  IF n.err THEN FALSE
  ELSE IF n.done THEN TRUE
  ELSE NDPOptionsWellFormedFrom(units, n.next)

\* NDPOptions.Iter(check): with check the whole area is validated first and
\* a malformed option anywhere is an error; without it Iter never fails and
\* errors surface from Next.
NDPOptionsIterErr(units, check) == check /\ ~NDPOptionsWellFormedFrom(units, 1)

\* ------------------------------------------------------------------------
\* ICMPv6 checksum (header.ICMPv6Checksum): the ones' complement of the
\* ones'-complement sum of the pseudo-header (source, destination, length,
\* next header 58) and the message with its checksum field left out.
\* ------------------------------------------------------------------------

ChecksumMod == 65535

AddrSum(a) == a[1] * 256 + a[2] + a[3]

RECURSIVE UnitsSum(_)
UnitsSum(units) ==
  IF units = <<>> THEN 0
  ELSE units[1].typ * 256 + units[1].len + units[1].addr[1] + UnitsSum(Tail(units))

ICMPv6Checksum(typ, code, bodySum, length, src, dst) ==
  ChecksumMod -
    ((AddrSum(src) + AddrSum(dst) + length + ICMPv6ProtocolNumber
      + typ * 256 + code + bodySum) % ChecksumMod)

\* ------------------------------------------------------------------------
\* Effects of one handler invocation: the received-direction counters it
\* increments (in order), the sent-direction counters it increments, and the
\* calls it makes on its collaborators (in order).
\* ------------------------------------------------------------------------

RecvCounters ==
  {"Invalid", "PacketTooBig", "DstUnreachable", "NeighborSolicit", "NeighborAdvert",
   "EchoRequest", "EchoReply", "TimeExceeded", "ParamProblem", "RouterSolicit",
   "RouterAdvert", "RedirectMsg"}

SentCounters == {"Dropped", "NeighborAdvert", "EchoReply"}

\* What an invocation did with routes: clones it created, clones it
\* released by the time it returned, and the triggering route as it left it
\* (<<>> when it never stored into a route).
NoRouteUse == [cloned |-> 0, released |-> 0, triggering |-> <<>>]

Eff(recv, snt, cs) == [recv |-> recv, sent |-> snt, calls |-> cs, routeUse |-> NoRouteUse]

Call(fn, args) == [fn |-> fn, args |-> args]

\* The route handed to handleICMP for a packet: local address = the packet's
\* destination, remote address = its source.
RouteOf(p) ==
  [LocalAddress |-> p.dst, RemoteAddress |-> p.src,
   RemoteLinkAddress |-> FrameLinkAddr, LocalLinkAddress |-> LocalLinkAddr]

DefaultTTL == 64

\* Sum of the message body as the checksum sees it.
RECURSIVE BytesSum(_)
BytesSum(bs) == IF bs = <<>> THEN 0 ELSE bs[1] + BytesSum(Tail(bs))

BodySum(p) ==
  AddrSum(p.target) + UnitsSum(p.units) + p.ident + p.seq + BytesSum(p.data) + p.mtu
    + (IF p.flags.solicited THEN 64 ELSE 0) + (IF p.flags.override THEN 32 ELSE 0)

\* Checksum handleICMP computes for an inbound packet (lines 80-82).
InboundChecksum(p) ==
  ICMPv6Checksum(p.type, p.code, BodySum(p), p.len + Len(p.data), p.src, p.dst)

\* ------------------------------------------------------------------------
\* handleControl (lines 28-61)
\* ------------------------------------------------------------------------

IPv6MinimumSize == 40
IPv6FragmentHeader == 44
UDPProtocolNumber == 17
TCPProtocolNumber == 6

\* Mutant of handleControl: the embedded source address is not compared.
handleControlAnySource(typ, extra, emb) ==
  IF emb.hdrLen < IPv6MinimumSize
    THEN <<>>
  ELSE IF emb.next = IPv6FragmentHeader
    THEN IF ~emb.fragValid \/ emb.fragOff # 0
           THEN <<>>
           ELSE <<Call("DeliverTransportControlPacket",
                       <<OwnAddr, emb.dst, ProtocolNumber, emb.fragNext, typ, extra>>)>>
  ELSE <<Call("DeliverTransportControlPacket",
              <<OwnAddr, emb.dst, ProtocolNumber, emb.next, typ, extra>>)>>

\* Mutant of handleControl: a fragment at any offset is delivered.
handleControlAnyFragment(typ, extra, emb) ==
  IF emb.hdrLen < IPv6MinimumSize \/ emb.src # OwnAddr
    THEN <<>>
  ELSE IF emb.next = IPv6FragmentHeader
    THEN IF ~emb.fragValid
           THEN <<>>
           ELSE <<Call("DeliverTransportControlPacket",
                       <<OwnAddr, emb.dst, ProtocolNumber, emb.fragNext, typ, extra>>)>>
  ELSE <<Call("DeliverTransportControlPacket",
              <<OwnAddr, emb.dst, ProtocolNumber, emb.next, typ, extra>>)>>

handleControl(typ, extra, emb) ==
  IF emb.hdrLen < IPv6MinimumSize \/ emb.src # OwnAddr
    THEN <<>>
  ELSE IF emb.next = IPv6FragmentHeader
    THEN IF ~emb.fragValid \/ emb.fragOff # 0
           THEN <<>>
           ELSE <<Call("DeliverTransportControlPacket",
                       <<OwnAddr, emb.dst, ProtocolNumber, emb.fragNext, typ, extra>>)>>
  ELSE <<Call("DeliverTransportControlPacket",
              <<OwnAddr, emb.dst, ProtocolNumber, emb.next, typ, extra>>)>>

\* calculateMTU (ipv6.go): the MTU clamped to the largest payload size.
MaxPayloadSize == 65535

calculateMTU(mtu) == IF mtu < MaxPayloadSize THEN mtu ELSE MaxPayloadSize

\* ------------------------------------------------------------------------
\* handleICMP (lines 63-547), one operator per arm of the type switch.
\* ------------------------------------------------------------------------

\* Mutant of isNDPValid: the fragmentation header is not looked at.
isNDPValidIgnoringFragment(hasFragmentHeader, hopLimit, code) ==
  hopLimit = NDPHopLimit /\ code = 0

\* lines 87-96
isNDPValid(hasFragmentHeader, hopLimit, code) ==
  ~hasFragmentHeader /\ hopLimit = NDPHopLimit /\ code = 0

\* lines 100-108
handlePacketTooBig(p) ==
  IF p.len < ICMPv6PacketTooBigMinimumSize
    THEN Eff(<<"PacketTooBig", "Invalid">>, <<>>, <<>>)
    ELSE Eff(<<"PacketTooBig">>, <<>>,
             handleControl("ControlPacketTooBig", calculateMTU(p.mtu), p.emb))

\* lines 110-120
handleDstUnreachable(p) ==
  IF p.len < ICMPv6DstUnreachableMinimumSize
    THEN Eff(<<"DstUnreachable", "Invalid">>, <<>>, <<>>)
  ELSE IF p.code = ICMPv6PortUnreachable
    THEN Eff(<<"DstUnreachable">>, <<>>, handleControl("ControlPortUnreachable", 0, p.emb))
  ELSE Eff(<<"DstUnreachable">>, <<>>, <<>>)

\* lines 177-200: the option loop of the Neighbor Solicitation arm, from
\* cursor i with the source link address found so far.
RECURSIVE NSScanOptions(_, _, _)
NSScanOptions(units, i, sourceLinkAddr) ==
  LET n == NDPOptionsNext(units, i) IN
  IF n.err THEN [invalid |-> TRUE, sourceLinkAddr |-> sourceLinkAddr]
  ELSE IF n.done THEN [invalid |-> FALSE, sourceLinkAddr |-> sourceLinkAddr]
  ELSE IF n.typ = NDPSourceLinkLayerAddressOptionType
    THEN IF Len(sourceLinkAddr) # 0
           THEN [invalid |-> TRUE, sourceLinkAddr |-> sourceLinkAddr]
           ELSE NSScanOptions(units, n.next, n.addr)
  ELSE NSScanOptions(units, n.next, sourceLinkAddr)

\* Mutant of NSOptionVerdict: a multicast solicitation may omit the option.
NSOptionVerdictNoMulticastRule(sourceLinkAddr, localAddress, unspecifiedSource) ==
  IF Len(sourceLinkAddr) = 0 THEN "accept"
  ELSE IF unspecifiedSource THEN "invalid"
  ELSE "probe"

\* lines 209-219: the Source Link-Layer Address option presence rules.
NSOptionVerdict(sourceLinkAddr, localAddress, unspecifiedSource) ==
  IF Len(sourceLinkAddr) = 0
    THEN IF IsV6MulticastAddress(localAddress) /\ ~unspecifiedSource
           THEN "invalid" ELSE "accept"
  ELSE IF unspecifiedSource THEN "invalid"
  ELSE "probe"

\* Mutant of NSReplyRoute: the option's link address does not override the
\* route's.
NSReplyRouteKeepLink(r, targetAddr, unspecifiedSource, sourceLinkAddr) ==
  [LocalAddress |-> targetAddr,
   RemoteAddress |-> IF unspecifiedSource THEN IPv6AllNodesMulticastAddress
                     ELSE r.RemoteAddress,
   RemoteLinkAddress |-> r.RemoteLinkAddress,
   LocalLinkAddress |-> r.LocalLinkAddress]

\* lines 229-252: the clone of the route the reply is sent on.
NSReplyRoute(r, targetAddr, unspecifiedSource, sourceLinkAddr) ==
  [LocalAddress |-> targetAddr,
   RemoteAddress |-> IF unspecifiedSource THEN IPv6AllNodesMulticastAddress
                     ELSE r.RemoteAddress,
   RemoteLinkAddress |-> IF Len(sourceLinkAddr) # 0 THEN sourceLinkAddr
                         ELSE r.RemoteLinkAddress,
   LocalLinkAddress |-> r.LocalLinkAddress]

\* Mutant of NSSolicitedFlag: the flag is set for every reply.
NSSolicitedFlagAlways(unspecifiedSource) == TRUE

\* lines 236-240
NSSolicitedFlag(unspecifiedSource) == ~unspecifiedSource

\* Mutant of NSReplyPacket: the Override flag is left clear.
NSReplyPacketNoOverride(rr, targetAddr, solicited) ==
  LET opts == <<[typ |-> NDPTargetLinkLayerAddressOptionType, len |-> 1,
                 addr |-> rr.LocalLinkAddress]>>
      body == AddrSum(targetAddr) + UnitsSum(opts) + (IF solicited THEN 64 ELSE 0)
  IN [type |-> ICMPv6NeighborAdvert, code |-> 0,
      solicited |-> solicited, override |-> FALSE, router |-> FALSE,
      target |-> targetAddr, opts |-> opts,
      checksum |-> ICMPv6Checksum(ICMPv6NeighborAdvert, 0, body, ICMPv6NeighborAdvertSize,
                                  rr.LocalAddress, rr.RemoteAddress)]

\* lines 254-266: the Neighbor Advertisement built on the cloned route rr.
NSReplyPacket(rr, targetAddr, solicited) ==
  LET opts == <<[typ |-> NDPTargetLinkLayerAddressOptionType, len |-> 1,
                 addr |-> rr.LocalLinkAddress]>>
      body == AddrSum(targetAddr) + UnitsSum(opts) + (IF solicited THEN 64 ELSE 0) + 32
  IN [type |-> ICMPv6NeighborAdvert, code |-> 0,
      solicited |-> solicited, override |-> TRUE, router |-> FALSE,
      target |-> targetAddr, opts |-> opts,
      checksum |-> ICMPv6Checksum(ICMPv6NeighborAdvert, 0, body, ICMPv6NeighborAdvertSize,
                                  rr.LocalAddress, rr.RemoteAddress)]

\* Mutant of NSTransmit: a failed write is counted as sent as well.
NSTransmitCountsBoth(rr, packet, writeErr) ==
  [calls |-> <<Call("WritePacket",
                    <<rr, [Protocol |-> ICMPv6ProtocolNumber, TTL |-> NDPHopLimit,
                           TOS |-> DefaultTOS], packet>>)>>,
   sent |-> IF writeErr THEN <<"Dropped", "NeighborAdvert">> ELSE <<"NeighborAdvert">>]

\* lines 274-280: transmit on the clone; count the outcome.
NSTransmit(rr, packet, writeErr) ==
  [calls |-> <<Call("WritePacket",
                    <<rr, [Protocol |-> ICMPv6ProtocolNumber, TTL |-> NDPHopLimit,
                           TOS |-> DefaultTOS], packet>>)>>,
   sent |-> IF writeErr THEN <<"Dropped">> ELSE <<"NeighborAdvert">>]

\* Mutant of NSTentativeCalls: the duplicate is never reported.
NSTentativeCallsNever(r, targetAddr) == <<>>

\* Mutant of NSTentativeCalls: the duplicate is reported whatever the source.
NSTentativeCallsAlways(r, targetAddr) ==
  <<Call("DupTentativeAddrDetected", <<NICID, targetAddr>>)>>

\* lines 138-157: the target address is tentative.
NSTentativeCalls(r, targetAddr) ==
  IF r.RemoteAddress = IPv6Any
    THEN <<Call("DupTentativeAddrDetected", <<NICID, targetAddr>>)>>
    ELSE <<>>

\* Mutant of NSRouteUse: the overrides are stored into the triggering route
\* itself and nothing is cloned.
NSRouteUseInPlace(r, rr) == [cloned |-> 0, released |-> 0, triggering |-> <<rr>>]

\* lines 229-252: the route is cloned once, the deferred Release runs when
\* the handler returns, and every store goes to the clone rr, the variable
\* r being rebound to it; the triggering route r is left as it was.
NSRouteUse(r, rr) == [cloned |-> 1, released |-> 1, triggering |-> <<r>>]

\* Mutant of NSTargetIsLocal: the answer of CheckLocalAddress is ignored.
NSTargetIsLocalUnchecked(localOwner) == TRUE

\* lines 163-166: CheckLocalAddress names an owner of the target.
NSTargetIsLocal(localOwner) == localOwner # 0

\* lines 163-280: the target address is not tentative.
NSProcess(p, r, env) ==
  LET targetAddr == p.target
      cs == <<Call("IsAddrTentative", <<NICID, targetAddr>>),
              Call("CheckLocalAddress", <<NICID, ProtocolNumber, targetAddr>>)>>
  IN
  IF ~NSTargetIsLocal(env.localOwner) THEN Eff(<<"NeighborSolicit">>, <<>>, cs)
  ELSE
    LET scan == NSScanOptions(p.units, 1, NoLinkAddr)
        unspecifiedSource == r.RemoteAddress = IPv6Any
        verdict == NSOptionVerdict(scan.sourceLinkAddr, r.LocalAddress, unspecifiedSource)
        probe == IF verdict = "probe"
                   THEN <<Call("HandleProbe", <<r.RemoteAddress, r.LocalAddress,
                                                 ProtocolNumber, scan.sourceLinkAddr>>)>>
                   ELSE <<>>
        rr == NSReplyRoute(r, targetAddr, unspecifiedSource, scan.sourceLinkAddr)
        packet == NSReplyPacket(rr, targetAddr, NSSolicitedFlag(unspecifiedSource))
        tx == NSTransmit(rr, packet, env.writeErr)
    IN
    IF scan.invalid \/ verdict = "invalid"
      THEN Eff(<<"NeighborSolicit", "Invalid">>, <<>>, cs)
      ELSE [Eff(<<"NeighborSolicit">>, tx.sent, cs \o probe \o tx.calls)
              EXCEPT !.routeUse = NSRouteUse(r, rr)]

\* lines 122-280
handleNeighborSolicit(p, r, env) ==
  IF p.len < ICMPv6NeighborSolicitMinimumSize
       \/ ~isNDPValid(p.hasFragmentHeader, p.hopLimit, p.code)
    THEN Eff(<<"NeighborSolicit", "Invalid">>, <<>>, <<>>)
  ELSE IF env.tentative = "error"
    THEN Eff(<<"NeighborSolicit">>, <<>>, <<Call("IsAddrTentative", <<NICID, p.target>>)>>)
  ELSE IF env.tentative = "yes"
    THEN Eff(<<"NeighborSolicit">>, <<>>,
             <<Call("IsAddrTentative", <<NICID, p.target>>)>> \o NSTentativeCalls(r, p.target))
  ELSE NSProcess(p, r, env)

\* lines 333-353: the option loop of the Neighbor Advertisement arm.
RECURSIVE NAScanOptions(_, _, _, _)
NAScanOptions(p, i, targetAddr, cs) ==
  LET n == NDPOptionsNext(p.units, i) IN
  IF n.err THEN [invalid |-> TRUE, calls |-> cs]
  ELSE IF n.done THEN [invalid |-> FALSE, calls |-> cs]
  ELSE IF n.typ = NDPTargetLinkLayerAddressOptionType
    THEN NAScanOptions(p, n.next, targetAddr,
           Append(cs, Call("HandleConfirmation",
                           <<targetAddr, n.addr,
                             [Solicited |-> p.flags.solicited,
                              Override |-> p.flags.override,
                              IsRouter |-> p.flags.router]>>)))
  ELSE NAScanOptions(p, n.next, targetAddr, cs)

\* Mutant of NATentative: a tentative target is processed like any other.
NATentativeIgnored(tentative, targetAddr) ==
  [stop |-> tentative = "error",
   calls |-> <<Call("IsAddrTentative", <<NICID, targetAddr>>)>>]

\* lines 301-316: the tentative-address check of the Neighbor Advertisement
\* arm; "continue" when the target is not tentative.
NATentative(tentative, targetAddr) ==
  LET q == <<Call("IsAddrTentative", <<NICID, targetAddr>>)>> IN
  IF tentative = "error" THEN [stop |-> TRUE, calls |-> q]
  ELSE IF tentative = "yes"
    THEN [stop |-> TRUE,
          calls |-> q \o <<Call("DupTentativeAddrDetected", <<NICID, targetAddr>>)>>]
  ELSE [stop |-> FALSE, calls |-> q]

\* lines 289-295: Iter(true) validates the whole options area up front.
NAOptionsRejected(units) == NDPOptionsIterErr(units, TRUE)

\* lines 282-353
handleNeighborAdvert(p, r, env) ==
  IF p.len < ICMPv6NeighborAdvertSize
       \/ ~isNDPValid(p.hasFragmentHeader, p.hopLimit, p.code)
    THEN Eff(<<"NeighborAdvert", "Invalid">>, <<>>, <<>>)
  ELSE IF NAOptionsRejected(p.units)
    THEN Eff(<<"NeighborAdvert", "Invalid">>, <<>>, <<>>)
  ELSE
    LET t == NATentative(env.tentative, p.target) IN
    IF t.stop THEN Eff(<<"NeighborAdvert">>, <<>>, t.calls)
    ELSE
      LET scan == NAScanOptions(p, 1, p.target, t.calls) IN
      IF scan.invalid
        THEN Eff(<<"NeighborAdvert", "Invalid">>, <<>>, scan.calls)
        ELSE Eff(<<"NeighborAdvert">>, <<>>, scan.calls)

\* Mutant of EchoReplyPacket: the checksum copied from the request is kept.
EchoReplyPacketStaleChecksum(p, r) ==
  [type |-> ICMPv6EchoReply, code |-> p.code, ident |-> p.ident, seq |-> p.seq,
   checksum |-> p.checksum]

\* lines 361-366: the Echo Reply built from the request.
EchoReplyPacket(p, r) ==
  [type |-> ICMPv6EchoReply, code |-> p.code, ident |-> p.ident, seq |-> p.seq,
   checksum |-> ICMPv6Checksum(ICMPv6EchoReply, p.code,
                               p.ident + p.seq + BytesSum(p.data),
                               ICMPv6EchoMinimumSize + Len(p.data),
                               r.LocalAddress, r.RemoteAddress)]

\* Mutant of handleEchoRequest: a failed write is tried once more.
handleEchoRequestRetries(p, r, env) ==
  LET w == Call("WritePacket",
                <<r, [Protocol |-> ICMPv6ProtocolNumber, TTL |-> DefaultTTL,
                      TOS |-> DefaultTOS],
                  EchoReplyPacket(p, r), p.data>>)
  IN
  IF p.len < ICMPv6EchoMinimumSize
    THEN Eff(<<"EchoRequest", "Invalid">>, <<>>, <<>>)
    ELSE Eff(<<"EchoRequest">>,
             IF env.writeErr THEN <<"Dropped">> ELSE <<"EchoReply">>,
             IF env.writeErr THEN <<w, w>> ELSE <<w>>)

\* lines 355-374
handleEchoRequest(p, r, env) ==
  IF p.len < ICMPv6EchoMinimumSize
    THEN Eff(<<"EchoRequest", "Invalid">>, <<>>, <<>>)
    ELSE Eff(<<"EchoRequest">>,
             IF env.writeErr THEN <<"Dropped">> ELSE <<"EchoReply">>,
             <<Call("WritePacket",
                    <<r, [Protocol |-> ICMPv6ProtocolNumber, TTL |-> DefaultTTL,
                          TOS |-> DefaultTOS],
                      EchoReplyPacket(p, r), p.data>>)>>)

\* lines 376-382
handleEchoReply(p, r) ==
  IF p.len < ICMPv6EchoMinimumSize
    THEN Eff(<<"EchoReply", "Invalid">>, <<>>, <<>>)
    ELSE Eff(<<"EchoReply">>, <<>>,
             <<Call("DeliverTransportPacket", <<r, ICMPv6ProtocolNumber, p.ident, p.seq>>)>>)

\* lines 430-455: the option loop of the Router Solicitation arm.  stop
\* tells a return from inside the loop; invalid, that it counted Invalid.
RECURSIVE RSScanOptions(_, _, _, _, _)
RSScanOptions(units, i, sourceAddr, localAddress, cs) ==
  LET n == NDPOptionsNext(units, i) IN
  IF n.err THEN [invalid |-> TRUE, calls |-> cs]
  ELSE IF n.done THEN [invalid |-> FALSE, calls |-> cs]
  ELSE IF n.typ = NDPSourceLinkLayerAddressOptionType
    THEN IF Len(sourceAddr) = 0
           THEN [invalid |-> FALSE, calls |-> cs]
           ELSE RSScanOptions(units, n.next, sourceAddr, localAddress,
                  Append(cs, Call("HandleProbe",
                                  <<sourceAddr, localAddress, ProtocolNumber, n.addr>>)))
  ELSE RSScanOptions(units, n.next, sourceAddr, localAddress, cs)

\* Mutant of handleRouterSolicit: the answer of Forwarding is ignored.
handleRouterSolicitAnyNode(p, r, env) ==
  IF ~isNDPValid(p.hasFragmentHeader, p.hopLimit, p.code)
    THEN Eff(<<"RouterSolicit", "Invalid">>, <<>>, <<>>)
  ELSE IF p.len - ICMPv6HeaderSize < NDPRSMinimumSize
    THEN Eff(<<"RouterSolicit", "Invalid">>, <<>>, <<Call("Forwarding", <<>>)>>)
  ELSE
    LET scan == RSScanOptions(p.units, 1, p.src, r.LocalAddress,
                              <<Call("Forwarding", <<>>)>>) IN
    IF scan.invalid
      THEN Eff(<<"RouterSolicit", "Invalid">>, <<>>, scan.calls)
      ELSE Eff(<<"RouterSolicit">>, <<>>, scan.calls)

\* lines 390-455
handleRouterSolicit(p, r, env) ==
  IF ~isNDPValid(p.hasFragmentHeader, p.hopLimit, p.code)
    THEN Eff(<<"RouterSolicit", "Invalid">>, <<>>, <<>>)
  ELSE IF ~env.forwarding
    THEN Eff(<<"RouterSolicit", "Invalid">>, <<>>, <<Call("Forwarding", <<>>)>>)
  ELSE IF p.len - ICMPv6HeaderSize < NDPRSMinimumSize
    THEN Eff(<<"RouterSolicit", "Invalid">>, <<>>, <<Call("Forwarding", <<>>)>>)
  ELSE
    LET scan == RSScanOptions(p.units, 1, p.src, r.LocalAddress,
                              <<Call("Forwarding", <<>>)>>) IN
    IF scan.invalid
      THEN Eff(<<"RouterSolicit", "Invalid">>, <<>>, scan.calls)
      ELSE Eff(<<"RouterSolicit">>, <<>>, scan.calls)

\* lines 504-519: the option loop of the Router Advertisement arm.
RECURSIVE RAScanOptions(_, _, _, _, _)
RAScanOptions(units, i, routerAddr, localAddress, cs) ==
  LET n == NDPOptionsNext(units, i) IN
  IF n.err THEN [invalid |-> TRUE, calls |-> cs]
  ELSE IF n.done THEN [invalid |-> FALSE, calls |-> cs]
  ELSE IF n.typ = NDPSourceLinkLayerAddressOptionType
    THEN RAScanOptions(units, n.next, routerAddr, localAddress,
           Append(cs, Call("HandleProbe",
                           <<routerAddr, localAddress, ProtocolNumber, n.addr>>)))
  ELSE RAScanOptions(units, n.next, routerAddr, localAddress, cs)

\* Mutant of handleRouterAdvert: the source address is not looked at.
handleRouterAdvertAnySource(p, r) ==
  IF p.len - ICMPv6HeaderSize < NDPRAMinimumSize
       \/ ~isNDPValid(p.hasFragmentHeader, p.hopLimit, p.code)
    THEN Eff(<<"RouterAdvert", "Invalid">>, <<>>, <<>>)
  ELSE IF NDPOptionsIterErr(p.units, FALSE)
    THEN Eff(<<"RouterAdvert", "Invalid">>, <<>>, <<>>)
  ELSE
    LET scan == RAScanOptions(p.units, 1, p.src, r.LocalAddress,
                              <<Call("HandleNDPRA", <<NICID, p.src>>)>>) IN
    IF scan.invalid
      THEN Eff(<<"RouterAdvert", "Invalid">>, <<>>, scan.calls)
      ELSE Eff(<<"RouterAdvert">>, <<>>, scan.calls)

\* lines 462-519
handleRouterAdvert(p, r) ==
  IF p.len - ICMPv6HeaderSize < NDPRAMinimumSize
       \/ ~isNDPValid(p.hasFragmentHeader, p.hopLimit, p.code)
    THEN Eff(<<"RouterAdvert", "Invalid">>, <<>>, <<>>)
  ELSE IF ~IsV6LinkLocalAddress(p.src)
    THEN Eff(<<"RouterAdvert", "Invalid">>, <<>>, <<>>)
  ELSE IF NDPOptionsIterErr(p.units, FALSE)
    THEN Eff(<<"RouterAdvert", "Invalid">>, <<>>, <<>>)
  ELSE
    LET scan == RAScanOptions(p.units, 1, p.src, r.LocalAddress,
                              <<Call("HandleNDPRA", <<NICID, p.src>>)>>) IN
    IF scan.invalid
      THEN Eff(<<"RouterAdvert", "Invalid">>, <<>>, scan.calls)
      ELSE Eff(<<"RouterAdvert">>, <<>>, scan.calls)

\* Mutant of handleRedirect: a valid Redirect is not counted.
handleRedirectUncounted(p) ==
  IF ~isNDPValid(p.hasFragmentHeader, p.hopLimit, p.code)
    THEN Eff(<<"RedirectMsg", "Invalid">>, <<>>, <<>>)
    ELSE Eff(<<>>, <<>>, <<>>)

\* lines 521-542
handleRedirect(p) ==
  IF ~isNDPValid(p.hasFragmentHeader, p.hopLimit, p.code)
    THEN Eff(<<"RedirectMsg", "Invalid">>, <<>>, <<>>)
    ELSE Eff(<<"RedirectMsg">>, <<>>, <<>>)

\* Mutant of ChecksumMatches: the checksum is not verified.
ChecksumMatchesUnverified(p) == TRUE

\* lines 82: the embedded checksum agrees with the computed one.
ChecksumMatches(p) == p.checksum = InboundChecksum(p)

\* lines 99-546: the type switch.
dispatchType(p, r, env) ==
  CASE p.type = ICMPv6PacketTooBig -> handlePacketTooBig(p)
    [] p.type = ICMPv6DstUnreachable -> handleDstUnreachable(p)
    [] p.type = ICMPv6NeighborSolicit -> handleNeighborSolicit(p, r, env)
    [] p.type = ICMPv6NeighborAdvert -> handleNeighborAdvert(p, r, env)
    [] p.type = ICMPv6EchoRequest -> handleEchoRequest(p, r, env)
    [] p.type = ICMPv6EchoReply -> handleEchoReply(p, r)
    [] p.type = ICMPv6TimeExceeded -> Eff(<<"TimeExceeded">>, <<>>, <<>>)
    [] p.type = ICMPv6ParamProblem -> Eff(<<"ParamProblem">>, <<>>, <<>>)
    [] p.type = ICMPv6RouterSolicit -> handleRouterSolicit(p, r, env)
    [] p.type = ICMPv6RouterAdvert -> handleRouterAdvert(p, r)
    [] p.type = ICMPv6RedirectMsg -> handleRedirect(p)
    [] OTHER -> Eff(<<"Invalid">>, <<>>, <<>>)

\* Mutant of handleICMP: the global minimum size is not enforced.
handleICMPNoMinimumSize(p, r, env) ==
  IF ~ChecksumMatches(p)
    THEN Eff(<<"Invalid">>, <<>>, <<>>)
  ELSE dispatchType(p, r, env)

\* lines 63-547
handleICMP(p, r, env) ==
  IF p.len < ICMPv6MinimumSize
    THEN Eff(<<"Invalid">>, <<>>, <<>>)
  ELSE IF ~ChecksumMatches(p)
    THEN Eff(<<"Invalid">>, <<>>, <<>>)
  ELSE dispatchType(p, r, env)

\* ------------------------------------------------------------------------
\* LinkAddressRequest (lines 570-609)
\* ------------------------------------------------------------------------

\* The solicited-node multicast address of an address: the multicast prefix
\* followed by the address's low-order part.
SolicitedNodeAddr(addr) == <<255, 2, addr[3]>>

\* The Ethernet multicast address an IPv6 multicast address maps to: 33:33
\* followed by the address's low-order part.
EthernetAddressFromMulticastIPv6Address(addr) == <<13056 + addr[3]>>

\* What the link endpoint's WritePacket can answer: nil, or an error.
LinkWriteResults == {"nil", "ErrNoRoute", "ErrWouldBlock"}

\* Mutant of LinkAddressRequest: a failed write is tried once more and the
\* failure is not reported.
LinkAddressRequestRetries(addr, localAddr, linkAddr, writeResult) ==
  LET snaddr == SolicitedNodeAddr(addr)
      r == [LocalAddress |-> localAddr, RemoteAddress |-> snaddr,
            RemoteLinkAddress |-> IF Len(linkAddr) = 0
                                    THEN EthernetAddressFromMulticastIPv6Address(snaddr)
                                    ELSE linkAddr,
            LocalLinkAddress |-> NoLinkAddr]
      w == Call("LinkEndpoint.WritePacket", <<r, ProtocolNumber, addr>>)
  IN [calls |-> IF writeResult = "nil" THEN <<w>> ELSE <<w, w>>, result |-> "nil"]

\* lines 570-609: the route and the Neighbor Solicitation are built, the
\* link endpoint's WritePacket is called and its answer is returned.
LinkAddressRequest(addr, localAddr, linkAddr, writeResult) ==
  LET snaddr == SolicitedNodeAddr(addr)
      r == [LocalAddress |-> localAddr, RemoteAddress |-> snaddr,
            RemoteLinkAddress |-> IF Len(linkAddr) = 0
                                    THEN EthernetAddressFromMulticastIPv6Address(snaddr)
                                    ELSE linkAddr,
            LocalLinkAddress |-> NoLinkAddr]
      opts == <<[typ |-> NDPSourceLinkLayerAddressOptionType, len |-> 1,
                 addr |-> LocalLinkAddr]>>
      packet == [type |-> ICMPv6NeighborSolicit, code |-> 0, target |-> addr,
                 opts |-> opts,
                 checksum |-> ICMPv6Checksum(ICMPv6NeighborSolicit, 0,
                                             AddrSum(addr) + UnitsSum(opts),
                                             ICMPv6NeighborAdvertSize,
                                             r.LocalAddress, r.RemoteAddress),
                 hopLimit |-> NDPHopLimit, src |-> r.LocalAddress,
                 dst |-> r.RemoteAddress]
  IN [calls |-> <<Call("LinkEndpoint.WritePacket", <<r, ProtocolNumber, packet>>)>>,
      result |-> writeResult]

\* ------------------------------------------------------------------------
\* ResolveStaticAddress (lines 611-617)
\* ------------------------------------------------------------------------

\* Mutant of ResolveStaticAddress: every address is mapped.
ResolveStaticAddressAlways(addr) ==
  [linkAddr |-> EthernetAddressFromMulticastIPv6Address(addr), ok |-> TRUE]

\* lines 611-617
ResolveStaticAddress(addr) ==
  IF IsV6MulticastAddress(addr)
    THEN [linkAddr |-> EthernetAddressFromMulticastIPv6Address(addr), ok |-> TRUE]
    ELSE [linkAddr |-> NoLinkAddr, ok |-> FALSE]

\* ------------------------------------------------------------------------
\* Inbound packets and the collaborators' answers
\* ------------------------------------------------------------------------

NoFlags == [solicited |-> FALSE, override |-> FALSE, router |-> FALSE]

NoEmb ==
  [hdrLen |-> 0, src |-> IPv6Any, dst |-> IPv6Any, next |-> 0,
   fragValid |-> FALSE, fragOff |-> 0, fragNext |-> 0]

\* An embedded packet of this endpoint cut short inside its IPv6 header.
TruncatedEmb ==
  [hdrLen |-> 24, src |-> OwnAddr, dst |-> IPv6Any, next |-> UDPProtocolNumber,
   fragValid |-> FALSE, fragOff |-> 0, fragNext |-> 0]

\* The original packet embedded in an ICMPv6 error message.
Embs ==
  {NoEmb, TruncatedEmb} \cup
  {[hdrLen |-> IPv6MinimumSize, src |-> s, dst |-> PeerGlobal, next |-> n,
    fragValid |-> v, fragOff |-> o, fragNext |-> TCPProtocolNumber] :
      s \in {OwnAddr, PeerGlobal}, n \in {UDPProtocolNumber, IPv6FragmentHeader},
      v \in BOOLEAN, o \in {0, 8}}

BasePkt ==
  [type |-> 0, code |-> 0, checksum |-> 0, len |-> 0, hopLimit |-> NDPHopLimit,
   src |-> PeerLinkLocal, dst |-> OwnAddr, hasFragmentHeader |-> FALSE,
   target |-> IPv6Any, units |-> <<>>, flags |-> NoFlags,
   ident |-> 0, seq |-> 0, data |-> <<>>, mtu |-> 0, emb |-> NoEmb]

\* What the collaborators answer during one invocation: IsAddrTentative,
\* CheckLocalAddress, Forwarding, and whether WritePacket fails.
DefaultEnv ==
  [tentative |-> "no", localOwner |-> NICID, forwarding |-> TRUE, writeErr |-> FALSE]

\* Length of the first view and options area of an NDP message whose fixed
\* part is `base` bytes: a whole number of option units, or cut short.
NDPShapes(base) ==
  {[len |-> base + NDPOptionUnit * Len(u), units |-> u] : u \in OptAreas}
    \cup {[len |-> l, units |-> <<>>] : l \in {x \in {4, 8, 16, 24} : x < base}}

GateCodes == {0, 1}
GateHopLimits == {NDPHopLimit, 64}

\* A packet with its checksum field filled in, right or wrong.
WithChecksum(p, good) ==
  [p EXCEPT !.checksum = IF good THEN InboundChecksum(p)
                         ELSE (InboundChecksum(p) + 1) % (ChecksumMod + 1)]

Tentativeness == {"yes", "no", "error"}

\* The answers a Neighbor Solicitation can draw from IsAddrTentative and
\* CheckLocalAddress, and a failing WritePacket for the one that is answered.
NSEnvs ==
  {[DefaultEnv EXCEPT !.tentative = t, !.localOwner = o] :
      t \in Tentativeness, o \in {0, NICID}}
    \cup {[DefaultEnv EXCEPT !.writeErr = TRUE]}

NAEnvs == {[DefaultEnv EXCEPT !.tentative = t] : t \in Tentativeness}

RSEnvs == {[DefaultEnv EXCEPT !.forwarding = fw] : fw \in BOOLEAN}

\* The collaborators' answers an NDP message is paired with: every answer
\* in envs for a message with the right checksum that passes the validity
\* gate, the default ones for a message dropped before anything is asked.
AnswersFor(envs, good, code, hopLimit, hasFragmentHeader) ==
  IF good /\ code = 0 /\ hopLimit = NDPHopLimit /\ ~hasFragmentHeader
    THEN envs ELSE {DefaultEnv}

\* A neighbour whose link address is to be resolved.
NeighborAddr == <<254, 128, 3>>

\* No static resolution has been asked for.
NoStatic == [addr |-> IPv6Any, linkAddr |-> NoLinkAddr, ok |-> FALSE]

\* No resolution request is under way.
NoRequest ==
  [addr |-> IPv6Any, localAddr |-> IPv6Any, linkAddr |-> NoLinkAddr, writeResult |-> "nil"]

\* ------------------------------------------------------------------------
\* Concurrent invocations of handleICMP
\* ------------------------------------------------------------------------

\* How many invocations of handleICMP run at the same time.
MaxConcurrent == 2

Invocations == 1..MaxConcurrent

\* An invocation the stack has not started yet.
NotStarted ==
  [started |-> FALSE, pkt |-> BasePkt, env |-> DefaultEnv, todo |-> <<>>,
   done |-> 0, overlapped |-> FALSE]

\* Packets the concurrent invocations handle, with the collaborators'
\* answers: one for each combination of counters an invocation moves.
ConcurrentInputs ==
  LET echo == [BasePkt EXCEPT !.type = ICMPv6EchoRequest, !.len = 8, !.ident = 1]
      ns == [BasePkt EXCEPT !.type = ICMPv6NeighborSolicit, !.target = OwnAddr,
                            !.len = ICMPv6NeighborSolicitMinimumSize]
      ra == [BasePkt EXCEPT !.type = ICMPv6RouterAdvert, !.src = PeerGlobal,
                            !.dst = IPv6AllNodesMulticastAddress,
                            !.len = ICMPv6HeaderSize + NDPRAMinimumSize]
  IN {[pkt |-> WithChecksum(echo, TRUE), env |-> DefaultEnv],
      [pkt |-> WithChecksum(echo, TRUE), env |-> [DefaultEnv EXCEPT !.writeErr = TRUE]],
      [pkt |-> WithChecksum(echo, FALSE), env |-> DefaultEnv],
      [pkt |-> WithChecksum(ns, TRUE), env |-> DefaultEnv],
      [pkt |-> WithChecksum(ra, TRUE), env |-> DefaultEnv]}

\* Mutant of PendingIncrements: an invocation that runs beside others skips
\* its sent counters.
PendingIncrementsReceivedOnly(eff) ==
  [i \in 1..Len(eff.recv) |-> <<"received", eff.recv[i]>>]

\* The counter increments one invocation makes, in program order: each
\* `received.X.Increment()` comes before the write and the
\* `sent.X.Increment()` that follows it.
PendingIncrements(eff) ==
  [i \in 1..Len(eff.recv) |-> <<"received", eff.recv[i]>>]
    \o [i \in 1..Len(eff.sent) |-> <<"sent", eff.sent[i]>>]

\* StatCounter.Increment: one atomic addition of 1 to the counter.
Increment(counters, c) == [counters EXCEPT ![c] = @ + 1]

\* ------------------------------------------------------------------------
\* State
\* ------------------------------------------------------------------------

VARIABLES
  pc,             \* "idle", "done" when handleICMP has returned, "returned"
                  \* when LinkAddressRequest has, or "resolved" when
                  \* ResolveStaticAddress has
  pkt,            \* the packet of the current invocation
  env,            \* the collaborators' answers during the current invocation
  route,          \* the route handed to the handler, as the handler left it
  received,       \* stats.V6PacketsReceived
  sent,           \* stats.V6PacketsSent
  calls,          \* calls the current invocation made, in order
  entryReceived,  \* received as it was when the current invocation began
  entrySent,      \* sent as it was when the current invocation began
  handled,        \* packets handled and requests made so far
  request,        \* arguments of the current LinkAddressRequest, and what the
                  \* link endpoint's WritePacket answers
  result,         \* what the current LinkAddressRequest returned
  static,         \* argument and results of the current ResolveStaticAddress
  routeUse,       \* route clones the current invocation created and released
  invocations     \* the handleICMP invocations that run concurrently: the
                  \* packet of each and the increments it has yet to make

vars ==
  <<pc, pkt, env, route, received, sent, calls, entryReceived, entrySent, handled,
    request, result, static, routeUse, invocations>>

RECURSIVE Count(_, _)
Count(seq, x) ==
  IF seq = <<>> THEN 0
  ELSE (IF Head(seq) = x THEN 1 ELSE 0) + Count(Tail(seq), x)

Init ==
  /\ pc = "idle"
  /\ pkt = BasePkt
  /\ env = DefaultEnv
  /\ route = RouteOf(BasePkt)
  /\ received = [c \in RecvCounters |-> 0]
  /\ sent = [c \in SentCounters |-> 0]
  /\ calls = <<>>
  /\ entryReceived = [c \in RecvCounters |-> 0]
  /\ entrySent = [c \in SentCounters |-> 0]
  /\ handled = 0
  /\ request = NoRequest
  /\ result = "none"
  /\ static = NoStatic
  /\ routeUse = [cloned |-> 0, released |-> 0]
  /\ invocations = [t \in Invocations |-> NotStarted]

\* The stack hands over an inbound packet when no invocation is under way.
Ready == pc = "idle" /\ handled < MaxPackets

\* handleICMP runs on packet p, from entry to return, with the collaborators
\* answering as in e.
Invoke(p, e) ==
  /\ \E eff \in {handleICMP(p, RouteOf(p), e)} :
       /\ received' = [c \in RecvCounters |-> received[c] + Count(eff.recv, c)]
       /\ sent' = [c \in SentCounters |-> sent[c] + Count(eff.sent, c)]
       /\ calls' = eff.calls
       /\ routeUse' = [cloned |-> eff.routeUse.cloned, released |-> eff.routeUse.released]
       /\ route' = IF eff.routeUse.triggering = <<>> THEN RouteOf(p)
                   ELSE eff.routeUse.triggering[1]
  /\ pkt' = p
  /\ env' = e
  /\ pc' = "done"
  /\ handled' = handled + 1
  /\ UNCHANGED <<entryReceived, entrySent, request, result, static, invocations>>

\* The inbound packet is a Neighbor Solicitation.
RecvNeighborSolicit ==
  /\ Ready
  /\ \E c \in GateCodes, h \in GateHopLimits, f \in BOOLEAN,
        s \in {IPv6Any, PeerLinkLocal}, d \in {OwnAddr, SolicitedNodeOfOwn},
        sh \in NDPShapes(ICMPv6NeighborSolicitMinimumSize), g \in BOOLEAN :
        \E e \in AnswersFor(NSEnvs, g, c, h, f) :
       Invoke(WithChecksum([BasePkt EXCEPT !.type = ICMPv6NeighborSolicit, !.code = c,
                              !.hopLimit = h, !.hasFragmentHeader = f, !.src = s, !.dst = d,
                              !.target = OwnAddr, !.len = sh.len, !.units = sh.units], g),
              e)

\* The inbound packet is a Neighbor Advertisement.
RecvNeighborAdvert ==
  /\ Ready
  /\ \E c \in GateCodes, h \in GateHopLimits, f \in BOOLEAN,
        fl \in {NoFlags, [solicited |-> TRUE, override |-> TRUE, router |-> FALSE]},
        sh \in NDPShapes(ICMPv6NeighborAdvertMinimumSize), g \in BOOLEAN :
        \E e \in AnswersFor(NAEnvs, g, c, h, f) :
       Invoke(WithChecksum([BasePkt EXCEPT !.type = ICMPv6NeighborAdvert, !.code = c,
                              !.hopLimit = h, !.hasFragmentHeader = f,
                              !.dst = IPv6AllNodesMulticastAddress, !.target = OwnAddr,
                              !.flags = fl, !.len = sh.len, !.units = sh.units], g),
              e)

\* The inbound packet is a Router Solicitation.
RecvRouterSolicit ==
  /\ Ready
  /\ \E c \in GateCodes, h \in GateHopLimits, f \in BOOLEAN,
        s \in {IPv6Any, PeerLinkLocal},
        sh \in NDPShapes(ICMPv6HeaderSize + NDPRSMinimumSize), g \in BOOLEAN :
        \E e \in AnswersFor(RSEnvs, g, c, h, f) :
       Invoke(WithChecksum([BasePkt EXCEPT !.type = ICMPv6RouterSolicit, !.code = c,
                              !.hopLimit = h, !.hasFragmentHeader = f, !.src = s,
                              !.dst = IPv6AllNodesMulticastAddress,
                              !.len = sh.len, !.units = sh.units], g),
              e)

\* The inbound packet is a Router Advertisement.
RecvRouterAdvert ==
  /\ Ready
  /\ \E c \in GateCodes, h \in GateHopLimits, f \in BOOLEAN,
        s \in {PeerLinkLocal, PeerGlobal},
        sh \in NDPShapes(ICMPv6HeaderSize + NDPRAMinimumSize), g \in BOOLEAN :
       Invoke(WithChecksum([BasePkt EXCEPT !.type = ICMPv6RouterAdvert, !.code = c,
                              !.hopLimit = h, !.hasFragmentHeader = f, !.src = s,
                              !.dst = IPv6AllNodesMulticastAddress,
                              !.len = sh.len, !.units = sh.units], g),
              DefaultEnv)

\* The inbound packet is a Redirect.
RecvRedirect ==
  /\ Ready
  /\ \E c \in GateCodes, h \in GateHopLimits, f \in BOOLEAN, l \in {4, 8},
        g \in BOOLEAN :
       Invoke(WithChecksum([BasePkt EXCEPT !.type = ICMPv6RedirectMsg, !.code = c,
                              !.hopLimit = h, !.hasFragmentHeader = f, !.len = l], g),
              DefaultEnv)

\* The inbound packet is an Echo Request or an Echo Reply.
RecvEcho ==
  /\ Ready
  /\ \E t \in {ICMPv6EchoRequest, ICMPv6EchoReply}, l \in {4, 8},
        id \in {[ident |-> 4660, seq |-> 7], [ident |-> 1, seq |-> 0]},
        d \in {<<>>, <<112, 105, 110, 103>>}, g \in BOOLEAN, w \in BOOLEAN :
       Invoke(WithChecksum([BasePkt EXCEPT !.type = t, !.len = l, !.ident = id.ident,
                              !.seq = id.seq, !.data = d], g),
              [DefaultEnv EXCEPT !.writeErr = w])

\* The inbound packet is a Packet Too Big or a Destination Unreachable.
RecvError ==
  /\ Ready
  /\ \E t \in {ICMPv6PacketTooBig, ICMPv6DstUnreachable},
        c \in {0, ICMPv6PortUnreachable}, l \in {4, 8}, m \in {1280, 70000},
        e \in Embs, g \in BOOLEAN :
       Invoke(WithChecksum([BasePkt EXCEPT !.type = t, !.code = c, !.len = l, !.mtu = m,
                              !.emb = e], g),
              DefaultEnv)

\* The inbound packet is of a type handleICMP only counts, or of no known
\* type.
RecvOther ==
  /\ Ready
  /\ \E t \in {ICMPv6TimeExceeded, ICMPv6ParamProblem, ICMPv6Unassigned}, l \in {4, 8},
        g \in BOOLEAN :
       Invoke(WithChecksum([BasePkt EXCEPT !.type = t, !.len = l], g), DefaultEnv)

HandleICMP ==
  \/ RecvNeighborSolicit
  \/ RecvNeighborAdvert
  \/ RecvRouterSolicit
  \/ RecvRouterAdvert
  \/ RecvRedirect
  \/ RecvEcho
  \/ RecvError
  \/ RecvOther

\* The stack asks for the link address of a neighbour: LinkAddressRequest
\* runs from entry to return, the link endpoint answering w to the write.
RequestLinkAddress ==
  /\ Ready
  /\ \E a \in {NeighborAddr, OwnAddr}, l \in {NoLinkAddr, FrameLinkAddr},
        w \in LinkWriteResults :
       \E out \in {LinkAddressRequest(a, OwnAddr, l, w)} :
         /\ request' = [addr |-> a, localAddr |-> OwnAddr, linkAddr |-> l,
                        writeResult |-> w]
         /\ calls' = out.calls
         /\ result' = out.result
  /\ pc' = "returned"
  /\ handled' = handled + 1
  /\ UNCHANGED <<pkt, env, route, received, sent, entryReceived, entrySent, static,
                 routeUse, invocations>>

\* The stack asks whether an address resolves without a wire exchange:
\* ResolveStaticAddress runs from entry to return.
ResolveStatic ==
  /\ Ready
  /\ \E a \in {IPv6AllNodesMulticastAddress, SolicitedNodeOfOwn, OwnAddr, PeerGlobal,
                IPv6Any} :
       \E out \in {ResolveStaticAddress(a)} :
         static' = [addr |-> a, linkAddr |-> out.linkAddr, ok |-> out.ok]
  /\ pc' = "resolved"
  /\ handled' = handled + 1
  /\ UNCHANGED <<pkt, env, route, received, sent, calls, entryReceived, entrySent,
                 request, result, routeUse, invocations>>

\* The stack moves on to the next packet or request.
NextPacket ==
  /\ pc \in {"done", "returned", "resolved"}
  /\ pc' = "idle"
  /\ pkt' = BasePkt
  /\ env' = DefaultEnv
  /\ route' = RouteOf(BasePkt)
  /\ calls' = <<>>
  /\ entryReceived' = received
  /\ entrySent' = sent
  /\ request' = NoRequest
  /\ static' = NoStatic
  /\ routeUse' = [cloned |-> 0, released |-> 0]
  /\ result' = "none"
  /\ UNCHANGED <<received, sent, handled, invocations>>

Next == HandleICMP \/ RequestLinkAddress \/ ResolveStatic \/ NextPacket

Spec == Init /\ [][Next]_vars

\* ------------------------------------------------------------------------
\* Concurrent invocations: the stack calls handleICMP from several
\* goroutines; the invocations share the endpoint's counters only.
\* ------------------------------------------------------------------------

\* An invocation between two of its own increments.
MidFlight(t) == invocations[t].done > 0 /\ invocations[t].todo # <<>>

\* The stack starts invocation t on an inbound packet.
Begin(t) ==
  /\ ~invocations[t].started
  /\ \E in \in ConcurrentInputs :
       invocations' =
         [invocations EXCEPT ![t] =
            [started |-> TRUE, pkt |-> in.pkt, env |-> in.env,
             todo |-> PendingIncrements(handleICMP(in.pkt, RouteOf(in.pkt), in.env)),
             done |-> 0, overlapped |-> FALSE]]
  /\ UNCHANGED <<pc, pkt, env, route, received, sent, calls, entryReceived, entrySent,
                 handled, request, result, static, routeUse>>

\* Invocation t makes its next counter increment; the invocations that are
\* between two of their own increments have been overlapped by it.
IncrementStep(t) ==
  /\ invocations[t].todo # <<>>
  /\ LET inc == Head(invocations[t].todo)
     IN /\ received' = IF inc[1] = "received" THEN Increment(received, inc[2])
                        ELSE received
        /\ sent' = IF inc[1] = "sent" THEN Increment(sent, inc[2]) ELSE sent
  /\ invocations' =
       [u \in Invocations |->
          IF u = t
            THEN [invocations[t] EXCEPT !.todo = Tail(@), !.done = @ + 1]
            ELSE [invocations[u] EXCEPT !.overlapped = @ \/ MidFlight(u)]]
  /\ UNCHANGED <<pc, pkt, env, route, calls, entryReceived, entrySent, handled,
                 request, result, static, routeUse>>

ConcurrentNext == \E t \in Invocations : Begin(t) \/ IncrementStep(t)

ConcurrentSpec == Init /\ [][ConcurrentNext]_vars

\* ------------------------------------------------------------------------
\* Properties
\* ------------------------------------------------------------------------

Done == pc = "done"

\* Increments of one invocation.
RecvDelta(c) == received[c] - entryReceived[c]
SentDelta(c) == sent[c] - entrySent[c]

NumCalls(fn) == Cardinality({i \in 1..Len(calls) : calls[i].fn = fn})

\* The collaborator calls that apply a packet's contents or answer it.
EffectFns ==
  {"IsAddrTentative", "DupTentativeAddrDetected", "CheckLocalAddress", "HandleProbe",
   "HandleConfirmation", "HandleNDPRA", "DeliverTransportPacket",
   "DeliverTransportControlPacket", "WritePacket"}

NoEffectCalls == \A i \in 1..Len(calls) : calls[i].fn \notin EffectFns

NDPTypes ==
  {ICMPv6NeighborSolicit, ICMPv6NeighborAdvert, ICMPv6RouterSolicit, ICMPv6RouterAdvert}

GateValid(p) == ~p.hasFragmentHeader /\ p.hopLimit = 255 /\ p.code = 0

\* C1: a packet whose embedded checksum differs from the computed one is
\* dropped before the type switch: Invalid goes up by one, no per-type
\* received counter moves, and no collaborator is called.
C1_BadChecksumDropped ==
  (Done /\ pkt.checksum # InboundChecksum(pkt)) =>
    /\ RecvDelta("Invalid") = 1
    /\ \A c \in RecvCounters \ {"Invalid"} : RecvDelta(c) = 0
    /\ \A c \in SentCounters : SentDelta(c) = 0
    /\ NoEffectCalls

\* C1 witness: a Neighbor Solicitation that would have been answered, but for
\* its checksum.
C1_Witness ==
  /\ Done
  /\ pkt.checksum # InboundChecksum(pkt)
  /\ pkt.type = ICMPv6NeighborSolicit
  /\ pkt.len >= ICMPv6NeighborSolicitMinimumSize
  /\ GateValid(pkt)
  /\ env.tentative = "no" /\ env.localOwner # 0
  /\ pkt.units = <<>> /\ pkt.src = IPv6Any
  /\ RecvDelta("Invalid") = 1
  /\ calls = <<>>

\* The minimum size that applies to a message: the global one, and the one
\* of its type.
TooShort(p) ==
  \/ p.len < ICMPv6MinimumSize
  \/ p.type = ICMPv6PacketTooBig /\ p.len < ICMPv6PacketTooBigMinimumSize
  \/ p.type = ICMPv6DstUnreachable /\ p.len < ICMPv6DstUnreachableMinimumSize
  \/ p.type = ICMPv6NeighborSolicit /\ p.len < ICMPv6NeighborSolicitMinimumSize
  \/ p.type = ICMPv6NeighborAdvert /\ p.len < ICMPv6NeighborAdvertMinimumSize
  \/ p.type \in {ICMPv6EchoRequest, ICMPv6EchoReply} /\ p.len < ICMPv6EchoMinimumSize
  \/ p.type = ICMPv6RouterSolicit /\ p.len < ICMPv6HeaderSize + NDPRSMinimumSize
  \/ p.type = ICMPv6RouterAdvert /\ p.len < ICMPv6HeaderSize + NDPRAMinimumSize

\* C2: a message shorter than the minimum that applies to it counts as
\* Invalid and is not answered.
C2_TooShortInvalid ==
  (Done /\ TooShort(pkt)) => (RecvDelta("Invalid") = 1 /\ NumCalls("WritePacket") = 0)

\* C2 witness: a Router Advertisement, well-formed but for its length, that
\* passes the global minimum and fails the one of its type.
C2_Witness ==
  /\ Done
  /\ pkt.type = ICMPv6RouterAdvert
  /\ pkt.len >= ICMPv6MinimumSize
  /\ pkt.len < ICMPv6HeaderSize + NDPRAMinimumSize
  /\ pkt.checksum = InboundChecksum(pkt)
  /\ GateValid(pkt)
  /\ RecvDelta("Invalid") = 1
  /\ RecvDelta("RouterAdvert") = 1

\* C3: an NS, NA, RS or RA with a correct checksum that fails the validity
\* gate (hop limit not 255, code not 0, or a fragmentation header) counts as
\* Invalid and is dropped before its body is processed.
C3_GateDrops ==
  (/\ Done
   /\ pkt.type \in NDPTypes
   /\ pkt.len >= ICMPv6MinimumSize
   /\ pkt.checksum = InboundChecksum(pkt)
   /\ ~GateValid(pkt)) =>
    (RecvDelta("Invalid") = 1 /\ NoEffectCalls)

\* C3 witness: a Neighbor Solicitation, otherwise answerable, that came with
\* a fragmentation header.
C3_Witness ==
  /\ Done
  /\ pkt.type = ICMPv6NeighborSolicit
  /\ pkt.len >= ICMPv6NeighborSolicitMinimumSize
  /\ pkt.checksum = InboundChecksum(pkt)
  /\ pkt.hasFragmentHeader /\ pkt.hopLimit = 255 /\ pkt.code = 0
  /\ env.tentative = "no" /\ env.localOwner # 0
  /\ pkt.units = <<SLLUnit>> /\ pkt.src # IPv6Any
  /\ RecvDelta("Invalid") = 1
  /\ calls = <<>>

\* A Neighbor Solicitation that gets as far as the tentative-address query.
NSReachesDAD(p) ==
  /\ p.type = ICMPv6NeighborSolicit
  /\ p.len >= ICMPv6NeighborSolicitMinimumSize
  /\ p.checksum = InboundChecksum(p)
  /\ GateValid(p)

\* A Neighbor Advertisement that passes the size check and the gate.
NAPassesGate(p) ==
  /\ p.type = ICMPv6NeighborAdvert
  /\ p.len >= ICMPv6NeighborAdvertSize
  /\ p.checksum = InboundChecksum(p)
  /\ GateValid(p)

CalledWith(fn, args) == \E i \in 1..Len(calls) : calls[i].fn = fn /\ calls[i].args = args

\* C4: a size-valid, gate-valid Neighbor Solicitation from the unspecified
\* address for a tentative target reports the duplicate exactly once, is not
\* answered and is not counted Invalid, whatever its options.
C4_DADSolicitReported ==
  (Done /\ NSReachesDAD(pkt) /\ env.tentative = "yes" /\ pkt.src = IPv6Any) =>
    /\ NumCalls("DupTentativeAddrDetected") = 1
    /\ CalledWith("DupTentativeAddrDetected", <<NICID, pkt.target>>)
    /\ NumCalls("WritePacket") = 0
    /\ RecvDelta("Invalid") = 0

\* C4 witness: such a solicitation with a malformed option.
C4_Witness ==
  /\ Done /\ NSReachesDAD(pkt) /\ env.tentative = "yes" /\ pkt.src = IPv6Any
  /\ pkt.units = <<SLLUnit, ZeroLenUnit>>
  /\ NumCalls("DupTentativeAddrDetected") = 1

\* C5 as stated: a size-valid, gate-valid Neighbor Advertisement for a
\* tentative target always reports the duplicate and confirms nothing.
C5_Original ==
  (Done /\ NAPassesGate(pkt) /\ env.tentative = "yes") =>
    /\ CalledWith("DupTentativeAddrDetected", <<NICID, pkt.target>>)
    /\ NumCalls("HandleConfirmation") = 0

\* C5 amended: a gate-valid Neighbor Advertisement of at least
\* ICMPv6NeighborAdvertSize bytes whose options area is well-formed, for a
\* tentative target, reports the duplicate once and is dropped right after,
\* with no HandleConfirmation.
C5_DADAdvertReported ==
  (Done /\ NAPassesGate(pkt) /\ NDPOptionsWellFormedFrom(pkt.units, 1)
     /\ env.tentative = "yes") =>
    /\ NumCalls("DupTentativeAddrDetected") = 1
    /\ calls[Len(calls)].fn = "DupTentativeAddrDetected"
    /\ calls[Len(calls)].args = <<NICID, pkt.target>>
    /\ NumCalls("HandleConfirmation") = 0
    /\ RecvDelta("Invalid") = 0

\* C5 witness: such an advertisement carrying a Target Link-Layer Address
\* option.
C5_Witness ==
  /\ Done /\ NAPassesGate(pkt) /\ env.tentative = "yes"
  /\ pkt.units = <<TLLUnit>>
  /\ NumCalls("DupTentativeAddrDetected") = 1
  /\ NumCalls("HandleConfirmation") = 0

\* C6: a size-valid, gate-valid Neighbor Solicitation from a specified
\* source for a tentative target is dropped silently.
C6_TentativeSolicitIgnored ==
  (Done /\ NSReachesDAD(pkt) /\ env.tentative = "yes" /\ pkt.src # IPv6Any) =>
    /\ NumCalls("DupTentativeAddrDetected") = 0
    /\ NumCalls("HandleProbe") = 0
    /\ NumCalls("WritePacket") = 0
    /\ RecvDelta("Invalid") = 0

\* C6 witness: such a solicitation, with the option that would feed a probe.
C6_Witness ==
  /\ Done /\ NSReachesDAD(pkt) /\ env.tentative = "yes" /\ pkt.src = PeerLinkLocal
  /\ pkt.units = <<SLLUnit>>
  /\ calls = <<Call("IsAddrTentative", <<NICID, pkt.target>>)>>

IsNAWrite(c) == c.fn = "WritePacket" /\ c.args[3].type = ICMPv6NeighborAdvert

\* C7: a Neighbor Advertisement is transmitted only after IsAddrTentative
\* answered "not tentative" and then CheckLocalAddress named an owner; on an
\* IsAddrTentative error the packet is dropped with no report, no Invalid
\* and no reply; with no owner it is dropped with no probe and no reply.
C7_ReplyOnlyForOwnedTarget ==
  Done =>
    /\ \A i \in 1..Len(calls) :
         IsNAWrite(calls[i]) =>
           /\ env.tentative = "no"
           /\ env.localOwner # 0
           /\ \E j \in 1..(i - 1), k \in 1..(i - 1) :
                /\ j < k
                /\ calls[j].fn = "IsAddrTentative"
                /\ calls[j].args = <<NICID, pkt.target>>
                /\ calls[k].fn = "CheckLocalAddress"
                /\ calls[k].args = <<NICID, ProtocolNumber, pkt.target>>
    /\ (NSReachesDAD(pkt) /\ env.tentative = "error") =>
         /\ NumCalls("DupTentativeAddrDetected") = 0
         /\ RecvDelta("Invalid") = 0
         /\ NumCalls("WritePacket") = 0
    /\ (NSReachesDAD(pkt) /\ env.tentative = "no" /\ env.localOwner = 0) =>
         /\ NumCalls("HandleProbe") = 0
         /\ NumCalls("WritePacket") = 0

\* C7 witness: an advertisement went out after both queries.
C7_Witness ==
  /\ Done
  /\ Len(calls) = 3
  /\ calls[1].fn = "IsAddrTentative"
  /\ calls[2].fn = "CheckLocalAddress"
  /\ IsNAWrite(calls[3])

\* A Neighbor Solicitation that gets as far as its options: the target is
\* not tentative and is owned locally.
NSReachesOptions(p, e) ==
  NSReachesDAD(p) /\ e.tentative = "no" /\ e.localOwner # 0

\* The Source Link-Layer Address options the iteration yields before it ends
\* or fails: their link addresses, in order.
RECURSIVE SLLAddrsFrom(_, _)
SLLAddrsFrom(units, i) ==
  LET n == NDPOptionsNext(units, i) IN
  IF n.err \/ n.done THEN <<>>
  ELSE IF n.typ = NDPSourceLinkLayerAddressOptionType
    THEN <<n.addr>> \o SLLAddrsFrom(units, n.next)
  ELSE SLLAddrsFrom(units, n.next)

SLLAddrs(units) == SLLAddrsFrom(units, 1)

WellFormed(units) == NDPOptionsWellFormedFrom(units, 1)

\* C8: a valid Neighbor Solicitation for an owned, non-tentative target, from
\* the unspecified address, without Source Link-Layer Address option and to a
\* unicast destination, is accepted, and the advertisement is unsolicited
\* and goes to the all-nodes multicast address.
C8_UnspecifiedSourceReply ==
  (/\ Done /\ NSReachesOptions(pkt, env) /\ WellFormed(pkt.units)
   /\ pkt.src = IPv6Any
   /\ SLLAddrs(pkt.units) = <<>>
   /\ ~IsV6MulticastAddress(pkt.dst)) =>
    /\ RecvDelta("Invalid") = 0
    /\ NumCalls("WritePacket") = 1
    /\ \A i \in 1..Len(calls) :
         calls[i].fn = "WritePacket" =>
           /\ calls[i].args[3].type = ICMPv6NeighborAdvert
           /\ calls[i].args[3].solicited = FALSE
           /\ calls[i].args[1].RemoteAddress = IPv6AllNodesMulticastAddress

\* C8 witness: such a solicitation, answered.
C8_Witness ==
  /\ Done /\ NSReachesOptions(pkt, env)
  /\ pkt.src = IPv6Any /\ pkt.dst = OwnAddr /\ pkt.units = <<TLLUnit>>
  /\ NumCalls("WritePacket") = 1
  /\ SentDelta("NeighborAdvert") = 1

\* C9: a valid Neighbor Solicitation for an owned, non-tentative target, from
\* a specified source and with exactly one Source Link-Layer Address option,
\* feeds one probe with that link address and is then answered with a
\* solicited advertisement to the source, sent to that link address.
C9_SpecifiedSourceReply ==
  (/\ Done /\ NSReachesOptions(pkt, env) /\ WellFormed(pkt.units)
   /\ pkt.src # IPv6Any
   /\ Len(SLLAddrs(pkt.units)) = 1) =>
    /\ NumCalls("WritePacket") = 1
    /\ NumCalls("HandleProbe") = 1
    /\ \E i \in 1..Len(calls), j \in 1..Len(calls) :
         /\ i < j
         /\ calls[i].fn = "HandleProbe"
         /\ calls[i].args = <<route.RemoteAddress, route.LocalAddress, ProtocolNumber,
                              SLLAddrs(pkt.units)[1]>>
         /\ IsNAWrite(calls[j])
         /\ calls[j].args[3].solicited = TRUE
         /\ calls[j].args[1].RemoteAddress = pkt.src
         /\ calls[j].args[1].RemoteLinkAddress = SLLAddrs(pkt.units)[1]

\* C9 witness: such a solicitation, sent to the solicited-node address, whose
\* option names a link address other than the route's.
C9_Witness ==
  /\ Done /\ NSReachesOptions(pkt, env)
  /\ pkt.src = PeerLinkLocal /\ pkt.dst = SolicitedNodeOfOwn
  /\ pkt.units = <<SLLUnit>>
  /\ SLLAddrs(pkt.units)[1] # route.RemoteLinkAddress
  /\ NumCalls("HandleProbe") = 1
  /\ NumCalls("WritePacket") = 1

\* The option rules a Neighbor Solicitation can break.
NSBreaksOptionRule(p) ==
  \/ Len(SLLAddrs(p.units)) > 1
  \/ Len(SLLAddrs(p.units)) >= 1 /\ p.src = IPv6Any
  \/ Len(SLLAddrs(p.units)) = 0 /\ IsV6MulticastAddress(p.dst) /\ p.src # IPv6Any

NSRejected ==
  RecvDelta("Invalid") = 1 /\ NumCalls("WritePacket") = 0 /\ NumCalls("HandleProbe") = 0

NSAccepted == RecvDelta("Invalid") = 0 /\ NumCalls("WritePacket") = 1

\* C10 as stated: of the solicitations that reach option processing, those
\* that break an option rule are rejected and all the others are accepted.
C10_Original ==
  (Done /\ NSReachesOptions(pkt, env)) =>
    IF NSBreaksOptionRule(pkt) THEN NSRejected ELSE NSAccepted

\* C10 amended: of the solicitations that reach option processing, those
\* that break an option rule or carry a malformed option are rejected
\* (Invalid, no advertisement, no probe) and all the others are accepted.
C10_OptionRules ==
  (Done /\ NSReachesOptions(pkt, env)) =>
    IF NSBreaksOptionRule(pkt) \/ ~WellFormed(pkt.units) THEN NSRejected ELSE NSAccepted

\* C10 witness: a solicitation to the solicited-node address from a
\* specified source without the option is rejected.
C10_Witness ==
  /\ Done /\ NSReachesOptions(pkt, env)
  /\ pkt.units = <<>> /\ pkt.dst = SolicitedNodeOfOwn /\ pkt.src = PeerLinkLocal
  /\ NSRejected


\* C11: every Neighbor Advertisement handleICMP transmits has the solicited
\* target as its IPv6 source (not the multicast destination the solicitation
\* came on) and as its target address, the Override flag set, exactly one
\* option, a Target Link-Layer Address option with the local link address,
\* and is written with hop limit 255 and the default traffic class.
C11_AdvertContents ==
  Done =>
    \A i \in 1..Len(calls) :
      IsNAWrite(calls[i]) =>
        /\ calls[i].args[1].LocalAddress = pkt.target
        /\ IsV6MulticastAddress(pkt.dst) => calls[i].args[1].LocalAddress # pkt.dst
        /\ calls[i].args[3].target = pkt.target
        /\ calls[i].args[3].override = TRUE
        /\ calls[i].args[3].opts =
             <<[typ |-> NDPTargetLinkLayerAddressOptionType, len |-> 1,
                addr |-> route.LocalLinkAddress]>>
        /\ calls[i].args[2].TTL = 255
        /\ calls[i].args[2].TOS = DefaultTOS

\* C11 witness: an advertisement answering a solicitation that came on the
\* solicited-node multicast address.
C11_Witness ==
  /\ Done
  /\ pkt.type = ICMPv6NeighborSolicit
  /\ pkt.dst = SolicitedNodeOfOwn
  /\ route.LocalAddress = SolicitedNodeOfOwn
  /\ \E i \in 1..Len(calls) :
       IsNAWrite(calls[i]) /\ calls[i].args[1].LocalAddress = OwnAddr


\* An Echo Request that reaches the reply: long enough and rightly summed.
EchoAnswerable(p) ==
  /\ p.type = ICMPv6EchoRequest
  /\ p.len >= ICMPv6EchoMinimumSize
  /\ p.checksum = InboundChecksum(p)

\* C12: a size-valid Echo Request with a correct checksum is answered with
\* exactly one WritePacket of an Echo Reply that has the request's
\* identifier, sequence number and payload, type Echo Reply, a checksum
\* that is the one computed over the reply and its payload with the route's
\* local address as source and remote address as destination, and the
\* route's default TTL.
C12_EchoRoundTrip ==
  (Done /\ EchoAnswerable(pkt)) =>
    /\ Len(calls) = 1
    /\ calls[1].fn = "WritePacket"
    /\ calls[1].args[1] = route
    /\ calls[1].args[2].TTL = DefaultTTL
    /\ calls[1].args[3].type = ICMPv6EchoReply
    /\ calls[1].args[3].ident = pkt.ident
    /\ calls[1].args[3].seq = pkt.seq
    /\ calls[1].args[4] = pkt.data
    /\ calls[1].args[3].checksum =
         ICMPv6Checksum(calls[1].args[3].type, calls[1].args[3].code,
                        calls[1].args[3].ident + calls[1].args[3].seq
                          + BytesSum(calls[1].args[4]),
                        ICMPv6EchoMinimumSize + Len(calls[1].args[4]),
                        route.LocalAddress, route.RemoteAddress)
    /\ ~env.writeErr => SentDelta("EchoReply") = 1

\* C12 witness: the request with identifier 0x1234, sequence number 7 and
\* payload "ping", answered.
C12_Witness ==
  /\ Done /\ EchoAnswerable(pkt)
  /\ pkt.ident = 4660 /\ pkt.seq = 7 /\ pkt.data = <<112, 105, 110, 103>>
  /\ Len(calls) = 1
  /\ calls[1].fn = "WritePacket"
  /\ calls[1].args[3].type = ICMPv6EchoReply
  /\ calls[1].args[3].ident = 4660
  /\ calls[1].args[4] = <<112, 105, 110, 103>>
  /\ SentDelta("EchoReply") = 1


\* C13: a Router Advertisement from a source that is not link-local is
\* counted Invalid and neither HandleNDPRA nor HandleProbe is called for it;
\* HandleNDPRA is called only for a Router Advertisement that passes the
\* validity gate, the minimum size and the link-local source check.
C13_RouterAdvertSource ==
  Done =>
    /\ (pkt.type = ICMPv6RouterAdvert /\ ~IsV6LinkLocalAddress(pkt.src)) =>
         /\ RecvDelta("Invalid") = 1
         /\ NumCalls("HandleNDPRA") = 0
         /\ NumCalls("HandleProbe") = 0
    /\ NumCalls("HandleNDPRA") > 0 =>
         /\ pkt.type = ICMPv6RouterAdvert
         /\ GateValid(pkt)
         /\ pkt.len - ICMPv6HeaderSize >= NDPRAMinimumSize
         /\ IsV6LinkLocalAddress(pkt.src)

\* C13 witness: a Router Advertisement, valid but for its global source,
\* whose option would have fed a probe.
C13_Witness ==
  /\ Done
  /\ pkt.type = ICMPv6RouterAdvert
  /\ pkt.src = PeerGlobal
  /\ pkt.checksum = InboundChecksum(pkt)
  /\ GateValid(pkt)
  /\ pkt.units = <<SLLUnit>>
  /\ pkt.len = ICMPv6HeaderSize + NDPRAMinimumSize + NDPOptionUnit
  /\ RecvDelta("Invalid") = 1
  /\ RecvDelta("RouterAdvert") = 1
  /\ calls = <<>>


\* A Router Solicitation that gets as far as its options: rightly summed,
\* past the validity gate, the forwarding check and the minimum size.
RSReachesOptions(p, e) ==
  /\ p.type = ICMPv6RouterSolicit
  /\ p.len >= ICMPv6MinimumSize
  /\ p.checksum = InboundChecksum(p)
  /\ GateValid(p)
  /\ e.forwarding
  /\ p.len - ICMPv6HeaderSize >= NDPRSMinimumSize

\* C14: for a Router Solicitation that passes the validity gate, the
\* forwarding check and the minimum size, HandleProbe is called only if the
\* source address is not the unspecified address; one from the unspecified
\* address with a Source Link-Layer Address option is dropped with no
\* HandleProbe call.
C14_ProbeOnlyFromSpecifiedSource ==
  (Done /\ RSReachesOptions(pkt, env)) =>
    /\ NumCalls("HandleProbe") > 0 => pkt.src # IPv6Any
    /\ (pkt.src = IPv6Any /\ SLLAddrs(pkt.units) # <<>>) => NumCalls("HandleProbe") = 0

\* C14, the failing case: a Router Solicitation from the unspecified address
\* with a Source Link-Layer Address option feeds a probe for that address.
C14_Witness ==
  /\ Done /\ RSReachesOptions(pkt, env)
  /\ pkt.src = IPv6Any
  /\ pkt.units = <<SLLUnit>>
  /\ calls = <<Call("Forwarding", <<>>),
               Call("HandleProbe", <<IPv6Any, route.LocalAddress, ProtocolNumber, OptLinkAddr>>)>>
  /\ RecvDelta("Invalid") = 0


\* A Router Advertisement that gets as far as its options.
RAReachesOptions(p) ==
  /\ p.type = ICMPv6RouterAdvert
  /\ p.len >= ICMPv6MinimumSize
  /\ p.checksum = InboundChecksum(p)
  /\ GateValid(p)
  /\ p.len - ICMPv6HeaderSize >= NDPRAMinimumSize
  /\ IsV6LinkLocalAddress(p.src)

\* An NDP message whose options are iterated.
ReachesOptions(p, e) ==
  \/ NSReachesOptions(p, e)
  \/ NAPassesGate(p)
  \/ RSReachesOptions(p, e)
  \/ RAReachesOptions(p)

\* Nothing of the packet was applied and it was not answered.
NothingApplied ==
  /\ NumCalls("HandleProbe") = 0
  /\ NumCalls("HandleConfirmation") = 0
  /\ NumCalls("HandleNDPRA") = 0
  /\ NumCalls("WritePacket") = 0

\* C15: a Neighbor Solicitation, Neighbor Advertisement, Router Solicitation
\* or Router Advertisement whose options area holds a malformed option, at
\* whatever position, is counted Invalid and nothing of it is applied: no
\* HandleProbe, HandleConfirmation or HandleNDPRA call and no reply.
C15_MalformedNeverApplied ==
  (Done /\ ReachesOptions(pkt, env) /\ ~WellFormed(pkt.units)) =>
    (RecvDelta("Invalid") = 1 /\ NothingApplied)

\* C15, the failing case: a Router Advertisement whose only option is
\* malformed is handed to HandleNDPRA and then counted Invalid.
C15_Witness ==
  /\ Done /\ RAReachesOptions(pkt)
  /\ pkt.units = <<ZeroLenUnit>>
  /\ calls = <<Call("HandleNDPRA", <<NICID, pkt.src>>)>>
  /\ RecvDelta("Invalid") = 1


\* The received-direction counter of a message type; Invalid for a type the
\* switch does not name.
TypeCounter(typ) ==
  CASE typ = ICMPv6PacketTooBig -> "PacketTooBig"
    [] typ = ICMPv6DstUnreachable -> "DstUnreachable"
    [] typ = ICMPv6NeighborSolicit -> "NeighborSolicit"
    [] typ = ICMPv6NeighborAdvert -> "NeighborAdvert"
    [] typ = ICMPv6EchoRequest -> "EchoRequest"
    [] typ = ICMPv6EchoReply -> "EchoReply"
    [] typ = ICMPv6TimeExceeded -> "TimeExceeded"
    [] typ = ICMPv6ParamProblem -> "ParamProblem"
    [] typ = ICMPv6RouterSolicit -> "RouterSolicit"
    [] typ = ICMPv6RouterAdvert -> "RouterAdvert"
    [] typ = ICMPv6RedirectMsg -> "RedirectMsg"
    [] OTHER -> "Invalid"

\* The received-direction counters one invocation moved.
RecvMoved == {c \in RecvCounters : RecvDelta(c) # 0}

\* A packet dropped ahead of the type switch.
DroppedBeforeSwitch(p) ==
  p.len < ICMPv6MinimumSize \/ p.checksum # InboundChecksum(p)

\* C16 as stated: every invocation of handleICMP moves exactly one
\* received-direction counter, by one.
C16_Original ==
  Done =>
    /\ Cardinality(RecvMoved) = 1
    /\ \A c \in RecvMoved : RecvDelta(c) = 1

\* C16 amended: every invocation moves Invalid alone (too short, bad
\* checksum, or a type the switch does not name), or the counter of the
\* packet's type and, when the packet is dropped inside its type's arm, also
\* Invalid; each by one, and never a counter of another type.  A packet
\* that fails the size check or the validity gate of its type moves both.
C16_ReceivedCounters ==
  Done =>
    /\ \A c \in RecvCounters : RecvDelta(c) \in {0, 1}
    /\ IF DroppedBeforeSwitch(pkt)
         THEN RecvMoved = {"Invalid"}
         ELSE /\ TypeCounter(pkt.type) \in RecvMoved
              /\ RecvMoved \subseteq {TypeCounter(pkt.type), "Invalid"}
    /\ (/\ ~DroppedBeforeSwitch(pkt)
        /\ TypeCounter(pkt.type) # "Invalid"
        /\ TooShort(pkt) \/ (pkt.type \in NDPTypes \cup {ICMPv6RedirectMsg} /\ ~GateValid(pkt)))
         => RecvMoved = {TypeCounter(pkt.type), "Invalid"}

\* C16 witness: a Redirect with a correct checksum that fails the validity
\* gate moves RedirectMsg and Invalid.
C16_Witness ==
  /\ Done
  /\ pkt.type = ICMPv6RedirectMsg
  /\ ~DroppedBeforeSwitch(pkt)
  /\ ~GateValid(pkt)
  /\ RecvMoved = {"RedirectMsg", "Invalid"}


\* The sent-direction counter of a reply's type.
ReplyCounter(typ) == IF typ = ICMPv6NeighborAdvert THEN "NeighborAdvert" ELSE "EchoReply"

\* The sent-direction counters one invocation moved.
SentMoved == {c \in SentCounters : SentDelta(c) # 0}

\* C17: an invocation that attempts a reply (a WritePacket of a Neighbor
\* Advertisement or an Echo Reply) moves exactly one sent-direction counter,
\* by one: Dropped if the write fails, else the counter of the reply's type;
\* an invocation that attempts none moves no sent-direction counter.
C17_SentCounters ==
  Done =>
    /\ \A c \in SentCounters : SentDelta(c) \in {0, 1}
    /\ NumCalls("WritePacket") = 0 => SentMoved = {}
    /\ \A i \in 1..Len(calls) :
         calls[i].fn = "WritePacket" =>
           /\ calls[i].args[3].type \in {ICMPv6NeighborAdvert, ICMPv6EchoReply}
           /\ SentMoved = IF env.writeErr THEN {"Dropped"}
                          ELSE {ReplyCounter(calls[i].args[3].type)}

\* C17 witness: a Neighbor Advertisement whose write failed.
C17_Witness ==
  /\ Done
  /\ env.writeErr
  /\ \E i \in 1..Len(calls) : IsNAWrite(calls[i])
  /\ SentDelta("Dropped") = 1
  /\ SentDelta("NeighborAdvert") = 0


\* C18: a Router Solicitation feeds a probe only if it passes the validity
\* gate, Forwarding() answers true and its NDP payload has the minimum
\* size; when Forwarding() answers false the solicitation is counted
\* Invalid and no probe is fed.
C18_RouterSolicitForwarding ==
  (Done /\ pkt.type = ICMPv6RouterSolicit) =>
    /\ NumCalls("HandleProbe") > 0 =>
         /\ GateValid(pkt)
         /\ env.forwarding
         /\ NumCalls("Forwarding") = 1
         /\ pkt.len - ICMPv6HeaderSize >= NDPRSMinimumSize
    /\ ~env.forwarding =>
         /\ RecvDelta("Invalid") = 1
         /\ NumCalls("HandleProbe") = 0

\* C18 witness: a Router Solicitation with the option that would feed a
\* probe, on a node that does not forward.
C18_Witness ==
  /\ Done
  /\ pkt.type = ICMPv6RouterSolicit
  /\ ~DroppedBeforeSwitch(pkt)
  /\ GateValid(pkt)
  /\ ~env.forwarding
  /\ pkt.src = PeerLinkLocal
  /\ pkt.units = <<SLLUnit>>
  /\ calls = <<Call("Forwarding", <<>>)>>
  /\ RecvDelta("Invalid") = 1


\* An error message handed to handleControl: rightly summed, of its type's
\* minimum size, a Packet Too Big or a Destination Unreachable with the
\* Port Unreachable code.
ReachesHandleControl(p) ==
  /\ ~DroppedBeforeSwitch(p)
  /\ \/ p.type = ICMPv6PacketTooBig /\ p.len >= ICMPv6PacketTooBigMinimumSize
     \/ /\ p.type = ICMPv6DstUnreachable
        /\ p.len >= ICMPv6DstUnreachableMinimumSize
        /\ p.code = ICMPv6PortUnreachable

\* The embedded packet has a whole IPv6 header and was sent by this endpoint.
EmbeddedIsOurs(emb) == emb.hdrLen >= IPv6MinimumSize /\ emb.src = OwnAddr

\* The embedded packet's fragmentation header, if any, is valid and of
\* offset zero.
EmbeddedHasTransport(emb) ==
  emb.next = IPv6FragmentHeader => (emb.fragValid /\ emb.fragOff = 0)

\* The transport protocol found behind the embedded IPv6 header and its
\* fragmentation header.
EmbeddedProtocol(emb) ==
  IF emb.next = IPv6FragmentHeader THEN emb.fragNext ELSE emb.next

\* C19: a Packet Too Big, or a Destination Unreachable with the Port
\* Unreachable code, whose embedded packet is this endpoint's and has no
\* fragmentation header or one of offset zero, is delivered once by
\* DeliverTransportControlPacket with the embedded header's source and
\* destination addresses and the transport protocol found behind the IPv6
\* header and the fragmentation header; an invalid fragmentation header or
\* one of non-zero offset yields no delivery, and neither does a
\* Destination Unreachable with another code.
C19_ControlDelivery ==
  (Done /\ pkt.type \in {ICMPv6PacketTooBig, ICMPv6DstUnreachable}) =>
    /\ (/\ ReachesHandleControl(pkt)
        /\ EmbeddedIsOurs(pkt.emb)
        /\ EmbeddedHasTransport(pkt.emb)) =>
         /\ Len(calls) = 1
         /\ calls[1].fn = "DeliverTransportControlPacket"
         /\ calls[1].args[1] = pkt.emb.src
         /\ calls[1].args[2] = pkt.emb.dst
         /\ calls[1].args[3] = ProtocolNumber
         /\ calls[1].args[4] = EmbeddedProtocol(pkt.emb)
         /\ calls[1].args[5] = IF pkt.type = ICMPv6PacketTooBig
                                 THEN "ControlPacketTooBig" ELSE "ControlPortUnreachable"
    /\ ~EmbeddedHasTransport(pkt.emb) => NumCalls("DeliverTransportControlPacket") = 0
    /\ (pkt.type = ICMPv6DstUnreachable /\ pkt.code # ICMPv6PortUnreachable) =>
         NumCalls("DeliverTransportControlPacket") = 0
    /\ NumCalls("DeliverTransportControlPacket") > 0 => ReachesHandleControl(pkt)

\* C19 witness: a Packet Too Big whose embedded packet is a first fragment;
\* the protocol delivered is the one the fragmentation header names.
C19_Witness ==
  /\ Done
  /\ pkt.type = ICMPv6PacketTooBig
  /\ ReachesHandleControl(pkt)
  /\ EmbeddedIsOurs(pkt.emb)
  /\ pkt.emb.next = IPv6FragmentHeader
  /\ pkt.emb.fragValid /\ pkt.emb.fragOff = 0
  /\ Len(calls) = 1
  /\ calls[1].fn = "DeliverTransportControlPacket"
  /\ calls[1].args[4] = TCPProtocolNumber


\* LinkAddressRequest has returned.
Returned == pc = "returned"

\* C20: LinkAddressRequest calls the link endpoint's WritePacket exactly
\* once and returns what that call answered: an error if and only if the
\* write failed, and then that very error.
C20_LinkAddressRequestResult ==
  Returned =>
    /\ Len(calls) = 1
    /\ calls[1].fn = "LinkEndpoint.WritePacket"
    /\ result = request.writeResult
    /\ (result # "nil") <=> (request.writeResult # "nil")

\* C20 witness: the write fails and the request returns the failure.
C20_Witness ==
  /\ Returned
  /\ request.addr = NeighborAddr
  /\ request.writeResult = "ErrNoRoute"
  /\ Len(calls) = 1
  /\ result = "ErrNoRoute"


\* C25: handleControl delivers to the transport only if the embedded packet
\* has a whole IPv6 header whose source address is the endpoint's local
\* address; otherwise nothing is delivered; and the local address delivered
\* is always the endpoint's own.
C25_ControlOnlyForOwnPackets ==
  Done =>
    /\ \A i \in 1..Len(calls) :
         calls[i].fn = "DeliverTransportControlPacket" =>
           /\ pkt.emb.hdrLen >= IPv6MinimumSize
           /\ pkt.emb.src = OwnAddr
           /\ calls[i].args[1] = OwnAddr
    /\ (pkt.emb.hdrLen < IPv6MinimumSize \/ pkt.emb.src # OwnAddr) =>
         NumCalls("DeliverTransportControlPacket") = 0

\* C25 witness: a Packet Too Big about a packet another node sent; nothing
\* is delivered.
C25_Witness ==
  /\ Done
  /\ ReachesHandleControl(pkt)
  /\ pkt.emb.hdrLen >= IPv6MinimumSize
  /\ pkt.emb.src = PeerGlobal
  /\ pkt.emb.next = UDPProtocolNumber
  /\ calls = <<>>
  /\ RecvDelta("Invalid") = 0


\* A Neighbor Solicitation that is answered: it reaches its options, they
\* are well-formed and break no option rule.
NSIsAccepted(p, e) ==
  NSReachesOptions(p, e) /\ WellFormed(p.units) /\ ~NSBreaksOptionRule(p)

\* C24: an invocation of handleICMP calls WritePacket at most once, a
\* failed write included, and only for an accepted Neighbor Solicitation or
\* a size-valid Echo Request; a received Echo Reply goes to the transport
\* dispatcher, and no packet of another type causes a write.
C24_AtMostOneWrite ==
  Done =>
    /\ NumCalls("WritePacket") <= 1
    /\ NumCalls("WritePacket") = 1 =>
         \/ pkt.type = ICMPv6NeighborSolicit /\ NSIsAccepted(pkt, env)
         \/ EchoAnswerable(pkt)
    /\ pkt.type \notin {ICMPv6NeighborSolicit, ICMPv6EchoRequest} =>
         NumCalls("WritePacket") = 0
    /\ (pkt.type = ICMPv6EchoReply /\ ~DroppedBeforeSwitch(pkt)
          /\ pkt.len >= ICMPv6EchoMinimumSize) =>
         (Len(calls) = 1 /\ calls[1].fn = "DeliverTransportPacket")

\* C24 witness: the write of an Echo Reply fails and is not repeated.
C24_Witness ==
  /\ Done
  /\ EchoAnswerable(pkt)
  /\ env.writeErr
  /\ NumCalls("WritePacket") = 1
  /\ Len(calls) = 1
  /\ SentDelta("Dropped") = 1


\* ResolveStaticAddress has returned.
Resolved == pc = "resolved"

\* C21: ResolveStaticAddress returns, for a multicast address, the Ethernet
\* multicast address it maps to and success, and for any other address an
\* empty link address and failure; it makes no call on a collaborator and
\* moves no counter.
C21_ResolveStaticAddress ==
  Resolved =>
    /\ IF static.addr[1] = 255
         THEN /\ static.ok
              /\ static.linkAddr = EthernetAddressFromMulticastIPv6Address(static.addr)
         ELSE /\ ~static.ok
              /\ static.linkAddr = NoLinkAddr
    /\ calls = <<>>
    /\ \A c \in RecvCounters : RecvDelta(c) = 0
    /\ \A c \in SentCounters : SentDelta(c) = 0

\* C21 witness: a unicast address does not resolve.
C21_Witness ==
  /\ Resolved
  /\ static.addr = PeerGlobal
  /\ ~static.ok
  /\ static.linkAddr = NoLinkAddr
  /\ calls = <<>>


\* C23: an invocation that answers a Neighbor Solicitation leaves the
\* triggering route as it was handed over (local address, remote address,
\* remote link address), sends the reply on a clone that carries the
\* overrides, and has released every clone it created when it returns,
\* whether the write succeeded or failed; an invocation that sends no
\* advertisement creates no clone.
C23_TriggeringRouteKept ==
  Done =>
    /\ route.LocalAddress = pkt.dst
    /\ route.RemoteAddress = pkt.src
    /\ route.RemoteLinkAddress = FrameLinkAddr
    /\ route = RouteOf(pkt)
    /\ routeUse.cloned = routeUse.released
    /\ routeUse.cloned = IF \E i \in 1..Len(calls) : IsNAWrite(calls[i]) THEN 1 ELSE 0
    /\ \A i \in 1..Len(calls) :
         IsNAWrite(calls[i]) => calls[i].args[1].LocalAddress = pkt.target

\* C23 witness: the write of an advertisement for a solicitation that came
\* on the solicited-node address from the unspecified address fails; the
\* clone, whose addresses both differ from the triggering route's, is
\* released.
C23_Witness ==
  /\ Done
  /\ pkt.type = ICMPv6NeighborSolicit
  /\ pkt.dst = SolicitedNodeOfOwn /\ pkt.src = IPv6Any
  /\ env.writeErr
  /\ Len(calls) = 3 /\ IsNAWrite(calls[3])
  /\ calls[3].args[1].LocalAddress # route.LocalAddress
  /\ calls[3].args[1].RemoteAddress # route.RemoteAddress
  /\ route = RouteOf(pkt)
  /\ routeUse = [cloned |-> 1, released |-> 1]
  /\ SentDelta("Dropped") = 1

\* ------------------------------------------------------------------------
\* C22: concurrent invocations and the counters
\* ------------------------------------------------------------------------

\* Every concurrent invocation has started and made all its increments.
AllReturned ==
  \A t \in Invocations : invocations[t].started /\ invocations[t].todo = <<>>

\* What handleICMP adds to counter c of the received (or sent) group when
\* it handles the packet of invocation t on its own, from entry to return.
AloneAdds(t, group, c) ==
  LET eff == handleICMP(invocations[t].pkt, RouteOf(invocations[t].pkt),
                        invocations[t].env)
  IN IF ~invocations[t].started THEN 0
     ELSE Count(IF group = "received" THEN eff.recv ELSE eff.sent, c)

\* Counter c after the packets of invocations 1..n were handled one after
\* another.
RECURSIVE OneAfterAnother(_, _, _)
OneAfterAnother(n, group, c) ==
  IF n = 0 THEN 0 ELSE OneAfterAnother(n - 1, group, c) + AloneAdds(n, group, c)

CountersAreSums ==
  /\ \A c \in RecvCounters : received[c] = OneAfterAnother(MaxConcurrent, "received", c)
  /\ \A c \in SentCounters : sent[c] = OneAfterAnother(MaxConcurrent, "sent", c)

NoCounterDecreases ==
  /\ \A c \in RecvCounters : received'[c] >= received[c]
  /\ \A c \in SentCounters : sent'[c] >= sent[c]

\* C22: when concurrent invocations of handleICMP have all returned, however
\* their increments interleaved, every received and sent counter equals the
\* sum of what the packets add when handled one after another; and no step
\* ever lowers a counter.
C22_ConcurrentCounters ==
  [](AllReturned => CountersAreSums) /\ [][NoCounterDecreases]_vars

\* Two invocations that both answered an Echo Request have returned, each
\* having made an increment between two increments of the other.
C22_Witness ==
  /\ AllReturned
  /\ \A t \in Invocations : invocations[t].overlapped
  /\ received.EchoRequest >= 2
  /\ sent.EchoReply >= 2

====
